---- MODULE Spec2Model ----
(***************************************************************************)
(* PID-Hunting: an ELM327-class OBD-II adapter driven over a serial line.  *)
(*   scanner.py       walks the ECU x PID matrix and logs every response   *)
(*   OBD-terminal.py  initializes the adapter and offers a command prompt  *)
(* A Python str is a sequence of one-character strings, a bytes value a    *)
(* sequence of integers 0..255.                                            *)
(***************************************************************************)
EXTENDS Integers, Sequences, FiniteSets, TLC

(***************************************************************************)
(* Characters, bytes and the str/bytes methods the programs call.          *)
(***************************************************************************)

\* ASCII 32..95 in code-point order.
Printable32 ==
  << " ", "!", "\"", "#", "$", "%", "&", "'", "(", ")", "*", "+", ",", "-", ".", "/",
     "0", "1", "2", "3", "4", "5", "6", "7", "8", "9", ":", ";", "<", "=", ">", "?",
     "@", "A", "B", "C", "D", "E", "F", "G", "H", "I", "J", "K", "L", "M", "N", "O",
     "P", "Q", "R", "S", "T", "U", "V", "W", "X", "Y", "Z", "[", "\\", "]", "^", "_" >>

\* ASCII 97..126 in code-point order.
Printable97 ==
  << "a", "b", "c", "d", "e", "f", "g", "h", "i", "j", "k", "l", "m", "n", "o",
     "p", "q", "r", "s", "t", "u", "v", "w", "x", "y", "z", "{", "|", "}", "~" >>

\* U+FFFD, the character bytes.decode(errors='replace') puts for a bad byte.
REPL == "U+FFFD"

CR == "\r"

Control == [c \in {"\t", "\n", "\f", "\r"} |->
              CASE c = "\t" -> 9 [] c = "\n" -> 10 [] c = "\f" -> 12 [] c = "\r" -> 13]

Chars ==
  {Printable32[n] : n \in 1..Len(Printable32)}
    \cup {Printable97[n] : n \in 1..Len(Printable97)}
    \cup DOMAIN Control \cup {REPL}

\* ord(c)
Ord == [c \in Chars |->
          IF c \in DOMAIN Control THEN Control[c]
          ELSE IF c = REPL THEN 65533
          ELSE IF \E n \in 1..Len(Printable32) : Printable32[n] = c
               THEN 31 + (CHOOSE n \in 1..Len(Printable32) : Printable32[n] = c)
          ELSE 96 + (CHOOSE n \in 1..Len(Printable97) : Printable97[n] = c)]

\* chr(n) for the code points of Chars
Chr(n) == CHOOSE c \in Chars : Ord[c] = n

\* The characters str.strip() removes (str.isspace), among Chars.
Whitespace == {" ", "\t", "\n", "\f", "\r"}

RECURSIVE LStrip(_)
LStrip(s) == IF s # << >> /\ Head(s) \in Whitespace THEN LStrip(Tail(s)) ELSE s

RECURSIVE RStrip(_)
RStrip(s) ==
  IF s # << >> /\ s[Len(s)] \in Whitespace THEN RStrip(SubSeq(s, 1, Len(s) - 1)) ELSE s

\* str.strip()
Strip(s) == LStrip(RStrip(s))

\* str.upper(), character by character: a..z to A..Z, every other character kept.
UpperChar(c) == IF Ord[c] >= 97 /\ Ord[c] <= 122 THEN Chr(Ord[c] - 32) ELSE c

Upper(s) == [n \in 1..Len(s) |-> UpperChar(s[n])]

\* str.lower()
LowerChar(c) == IF Ord[c] >= 65 /\ Ord[c] <= 90 THEN Chr(Ord[c] + 32) ELSE c

Lower(s) == [n \in 1..Len(s) |-> LowerChar(s[n])]

\* `sub in s`
Contains(s, sub) ==
  \E n \in 0..(Len(s) - Len(sub)) : SubSeq(s, n + 1, n + Len(sub)) = sub

\* str.startswith
StartsWith(s, prefix) ==
  Len(s) >= Len(prefix) /\ SubSeq(s, 1, Len(prefix)) = prefix

\* str.encode('utf-8'): one byte below U+0080, EF BF BD for U+FFFD.
EncodeChar(c) == IF Ord[c] < 128 THEN << Ord[c] >> ELSE << 239, 191, 189 >>

RECURSIVE Encode(_)
Encode(s) == IF s = << >> THEN << >> ELSE EncodeChar(Head(s)) \o Encode(Tail(s))

\* bytes.decode('utf-8', errors='replace'): an ASCII byte is its character, the
\* sequence EF BF BD is U+FFFD, and a byte that starts no valid sequence
\* becomes U+FFFD instead of raising.
RECURSIVE Decode(_)
Decode(b) ==
  IF b = << >> THEN << >>
  ELSE IF Head(b) < 128 THEN << Chr(Head(b)) >> \o Decode(Tail(b))
  ELSE IF Len(b) >= 3 /\ SubSeq(b, 1, 3) = << 239, 191, 189 >>
       THEN << REPL >> \o Decode(SubSeq(b, 4, Len(b)))
  ELSE << REPL >> \o Decode(Tail(b))

(***************************************************************************)
(* scanner.py: is_valid_response                                           *)
(***************************************************************************)

invalid_responses ==
  << << "?" >>,
     << "N", "O", " ", "D", "A", "T", "A" >>,
     << "U", "N", "A", "B", "L", "E", " ", "T", "O", " ",
        "C", "O", "N", "N", "E", "C", "T" >> >>

\* A classifier that forgets to upper-case the response before matching.
is_valid_response_case_sensitive(response) ==
  /\ response # << >>
  /\ \A n \in 1..Len(invalid_responses) : ~Contains(response, invalid_responses[n])

is_valid_response(response) ==
  /\ response # << >>
  /\ \A n \in 1..Len(invalid_responses) :
       ~Contains(Upper(response), invalid_responses[n])

(***************************************************************************)
(* Bounds of the model and the values the inputs are drawn from.           *)
(***************************************************************************)

\* Longest --ecus list, longest --pids list, most tasks in one scan.
MaxEcus == 3

MaxPids == 2

MaxTasks == 4

ECU_6F1 == << "6", "F", "1" >>

ECU_A06 == << "A", "0", "6" >>

PID_224002 == << "2", "2", "4", "0", "0", "2" >>

PID_0100 == << "0", "1", "0", "0" >>

EcuSet == {ECU_6F1, ECU_A06}

PidSet == {PID_224002, PID_0100}

\* All sequences over S of length 1..n (argparse nargs="+": at least one).
Lists(S, n) == UNION {[1..m -> S] : m \in 1..n}

\* What the adapter may have put in the receive buffer by the time it is drained.
ReplyNoData == << "N", "O", " ", "D", "A", "T", "A", "\r", "\r", ">" >>

ReplyData == << "6", "2", " ", "4", "0", " ", "0", "2", "\r", "\r", ">" >>

ReplyBlank == << " ", "\r", "\n" >>

\* A byte that is not UTF-8 (line noise).
ReplyNoise == << 255 >>

\* Nothing has arrived yet, or a data frame has.
RawReplies == {<< >>, Encode(ReplyData)}

TerminalReplies == RawReplies \cup {Encode(ReplyNoData), Encode(ReplyBlank), ReplyNoise}

\* Most commands typed at the terminal prompt in one session.
MaxInputs == 2

exit == << "e", "x", "i", "t" >>

\* Lines the user may type at the OBD> prompt.
InputLines ==
  { exit,
    << " ", "E", "x", "i", "t" >>,
    << "A", "T", "R", "V" >>,
    << "2", "2", "4", "0", "0", "2", " " >>,
    << >> }

(***************************************************************************)
(* Log files: what is on disk, what the open handle still buffers.         *)
(***************************************************************************)

NoFile == [exists |-> FALSE, data |-> << >>, buf |-> << >>, open |-> FALSE]

\* open(path, "a") without the removal: what the file holds is kept.
OpenAppend(f) == [exists |-> TRUE, data |-> f.data, buf |-> << >>, open |-> TRUE]

\* os.remove(path) if os.path.exists(path); open(path, "a")
OpenFresh(f) == [exists |-> TRUE, data |-> << >>, buf |-> << >>, open |-> TRUE]

\* file.write(s)
FileWrite(f, s) == [f EXCEPT !.buf = @ \o s]

\* file.flush()
FileFlush(f) == [f EXCEPT !.data = @ \o f.buf, !.buf = << >>]

\* file.close()
FileClose(f) == [FileFlush(f) EXCEPT !.open = FALSE]

(***************************************************************************)
(* scanner.py: scan_pid_for_ecu and the log line                           *)
(***************************************************************************)

ATST96 == << "A", "T", "S", "T", "9", "6" >>

ATSH == << "A", "T", "S", "H" >>

ATFCSH == << "A", "T", "F", "C", "S", "H" >>

target_addr == << "0", "1" >>

ATCEA == << "A", "T", "C", "E", "A" >>

ATCRA6 == << "A", "T", "C", "R", "A", "6" >>

ATFCSD0 == << "A", "T", "F", "C", "S", "D", "0" >>

ATFCSM1 == << "A", "T", "F", "C", "S", "M", "1" >>

\* A scan_pid_for_ecu that sets the header with ATSH whatever the mode.
scan_pid_for_ecu_always_ATSH(ecu, pid, use_extended) ==
  << ATST96, ATSH \o ecu, ATCEA \o target_addr, ATCRA6 \o target_addr,
     ATFCSD0 \o pid, ATFCSM1, pid >>

\* The commands scan_pid_for_ecu passes to send_command, in order.
scan_pid_for_ecu(ecu, pid, use_extended) ==
  << ATST96,
     (IF ~use_extended THEN ATSH ELSE ATFCSH) \o ecu,
     ATCEA \o target_addr,
     ATCRA6 \o target_addr,
     ATFCSD0 \o pid,
     ATFCSM1,
     pid >>

\* OBDScanner.send_command(cmd, delay=0.2): the delay in milliseconds.
ScannerDelay == 200

scanner_delay(cmd) == ScannerDelay

\* A send_command that appends the terminator without stripping.
command_bytes_unstripped(c) == Encode(c \o << CR >>)

\* A read_response that does not strip.
read_response_unstripped(raw) == Decode(raw)

\* command = cmd.strip() + "\r"; command.encode('utf-8')
command_bytes(c) == Encode(Strip(c) \o << CR >>)

\* read_all().decode('utf-8', errors='replace').strip()
read_response(raw) == Strip(Decode(raw))

LogEcu == << "E", "C", "U", ":", " " >>

LogPid == << " ", "|", " ", "P", "I", "D", ":", " " >>

LogResponse == << " ", "|", " ", "R", "e", "s", "p", "o", "n", "s", "e", ":", " " >>

\* f"ECU: {ecu} | PID: {pid} | Response: {response}"
result_line(ecu, pid, resp) == LogEcu \o ecu \o LogPid \o pid \o LogResponse \o resp

\* f"ECU: {ecu} | PID: {pid} | Response: {response}\n"
debug_message(ecu, pid, resp) == result_line(ecu, pid, resp) \o << "\n" >>

ScanComplete ==
  << "\n", "S", "c", "a", "n", " ", "C", "o", "m", "p", "l", "e", "t", "e", ".", " ",
     "V", "a", "l", "i", "d", " ", "E", "C", "U", "/", "P", "I", "D", " ",
     "r", "e", "s", "p", "o", "n", "s", "e", "s", ":" >>

(***************************************************************************)
(* State                                                                   *)
(***************************************************************************)
VARIABLES
  prog,            \* which script runs: "scanner" or "terminal"
  pc,              \* position of the script
  exc,             \* the exception in flight or that ended the script, or "none"
  ecus,            \* args.ecus
  pids,            \* args.pids
  extended,        \* args.extended
  ser,             \* the script's serial object: "None" or "Serial"
  port,            \* the serial port itself: "closed" or "open"
  typed,           \* lines read at the terminal prompt so far
  ecu_i,           \* position of the outer loop in args.ecus
  pid_i,           \* position of the inner loop in args.pids
  step,            \* position in the command list being sent
  cmd,             \* argument of the send_command call in progress
  io,              \* every write to and drain of the serial port so far
  response,        \* main's response / the terminal's response
  verdict,         \* outcomes of is_valid_response so far
  debug_log_file,  \* debug_responses.log
  valid_log_file,  \* valid_responses.log
  valid_results,   \* main's valid_results
  stdout,          \* what print() has written
  rx,              \* the bytes drained by the latest read whose response was kept
  done_tasks,      \* what scan_pid_for_ecu has returned so far
  earlier,         \* how each earlier run of the script ended and what it left
  pending,         \* replies the adapter owes or has sent that have not arrived yet
  inbuf,           \* the port's receive buffer, each chunk with the write it answers
  drained          \* the chunks the latest read_all took from the receive buffer

vars ==
  << prog, pc, exc, ecus, pids, extended, ser, port, typed, ecu_i, pid_i, step, cmd, io, response,
     verdict, debug_log_file, valid_log_file, valid_results, stdout, rx, done_tasks,
     earlier, pending, inbuf, drained >>

args == << ecus, pids, extended >>

loop == << ecu_i, pid_i, step >>

conn == << ser, port, typed >>

files == << debug_log_file, valid_log_file >>

wire == << pending, inbuf, drained >>

\* Nothing ran before, nothing is on the wire.
InitHistory ==
  /\ earlier = << >>
  /\ pending = << >>
  /\ inbuf = << >>
  /\ drained = << >>

WriteEvent(c, bytes) == [op |-> "write", cmd |-> c, data |-> bytes, delay |-> 0]

ReadEvent(c, d) == [op |-> "read", cmd |-> c, data |-> << >>, delay |-> d]

\* A log left behind by an earlier run.
StaleLog ==
  [exists |-> TRUE, data |-> debug_message(ECU_A06, PID_0100, << "O", "K" >>),
   buf |-> << >>, open |-> FALSE]

InitCommon ==
  /\ InitHistory
  /\ pc = "main"
  /\ exc = "none"
  /\ ser = "None"
  /\ port = "closed"
  /\ typed = 0
  /\ ecu_i = 0
  /\ pid_i = 0
  /\ step = 0
  /\ cmd = << >>
  /\ io = << >>
  /\ response = << >>
  /\ verdict = << >>
  /\ valid_results = << >>
  /\ stdout = << >>
  /\ rx = << >>
  /\ done_tasks = << >>
  /\ debug_log_file \in {NoFile, StaleLog}
  /\ valid_log_file \in {NoFile, StaleLog}

InitScanner ==
  /\ prog = "scanner"
  /\ ecus \in Lists(EcuSet, MaxEcus)
  /\ pids \in Lists(PidSet, MaxPids)
  /\ Len(ecus) * Len(pids) <= MaxTasks
  /\ extended \in BOOLEAN
  /\ InitCommon

(***************************************************************************)
(* scanner.py: main                                                        *)
(***************************************************************************)

\* Lines 122-132: both logs are removed if present and opened for appending.
ScanOpenLogs ==
  /\ prog = "scanner" /\ pc = "main"
  /\ debug_log_file' = OpenFresh(debug_log_file)
  /\ valid_log_file' = OpenFresh(valid_log_file)
  /\ pc' = "connect"
  /\ UNCHANGED << prog, earlier, wire, exc, args, conn, loop, cmd, io, response, verdict,
                  valid_results, stdout, rx, done_tasks >>

\* A connect whose failure is swallowed: main goes on into the scan loop
\* without a serial object.
ScanConnect_continues ==
  /\ prog = "scanner" /\ pc = "connect"
  /\ \/ ser' = "Serial" /\ port' = "open"
     \/ UNCHANGED << ser, port >>
  /\ valid_results' = << >>
  /\ ecu_i' = 1 /\ pid_i' = 1 /\ step' = 1
  /\ pc' = "write"
  /\ UNCHANGED << prog, earlier, wire, exc, args, typed, cmd, io, response, verdict, files, stdout,
                  rx, done_tasks >>

\* Lines 134-140, OBDScanner.__init__: serial.Serial(...) opens the port or
\* raises SerialException, which __init__ logs and re-raises out of main.
ScanConnect ==
  /\ prog = "scanner" /\ pc = "connect"
  /\ \/ /\ ser' = "Serial" /\ port' = "open"
        /\ valid_results' = << >>
        /\ ecu_i' = 1 /\ pid_i' = 1 /\ step' = 1
        /\ pc' = "write"
        /\ exc' = exc
     \/ /\ exc' = "SerialException"
        /\ pc' = "raised"
        /\ UNCHANGED << ser, port, valid_results, loop >>
  /\ UNCHANGED << prog, earlier, wire, args, typed, cmd, io, response, verdict, files, stdout,
                  rx, done_tasks >>

current_cmd == scan_pid_for_ecu(ecus[ecu_i], pids[pid_i], extended)[step]

\* A write whose failure is noted and tried again.
ScanWrite_retried ==
  /\ prog = "scanner" /\ pc = "write"
  /\ cmd' = current_cmd
  /\ \/ /\ io' = Append(io, WriteEvent(current_cmd, command_bytes(current_cmd)))
        /\ pc' = "read"
        /\ exc' = exc
     \/ /\ exc' = "SerialException"
        /\ pc' = "write"
        /\ io' = io
  /\ UNCHANGED << prog, earlier, wire, args, conn, loop, response, verdict, files, valid_results,
                  stdout, rx, done_tasks >>

\* OBDScanner.send_command lines 33-35: self.ser.write(command.encode('utf-8')).
ScanWrite ==
  /\ prog = "scanner" /\ pc = "write"
  /\ cmd' = current_cmd
  /\ \/ /\ io' = Append(io, WriteEvent(current_cmd, command_bytes(current_cmd)))
        /\ pc' = "read"
        /\ exc' = exc
     \/ /\ exc' = "SerialException"
        /\ pc' = "finally"
        /\ io' = io
  /\ UNCHANGED << prog, earlier, wire, args, conn, loop, response, verdict, files, valid_results,
                  stdout, rx, done_tasks >>

\* A send_command that reads the port only after the PID query: the six
\* addressing commands are written one after another without a read.
ScanRead_query_only ==
  /\ prog = "scanner" /\ pc = "read"
  /\ \/ \E raw \in RawReplies :
          /\ IF step < 7
               THEN /\ step' = step + 1
                    /\ pc' = "write"
                    /\ UNCHANGED << io, response, rx, done_tasks >>
               ELSE /\ io' = Append(io, ReadEvent(cmd, scanner_delay(cmd)))
                    /\ response' = read_response(raw)
                    /\ rx' = raw
                    /\ done_tasks' = Append(done_tasks,
                                            [ecu |-> ecus[ecu_i], pid |-> pids[pid_i],
                                             response |-> read_response(raw)])
                    /\ pc' = "record"
                    /\ step' = step
          /\ exc' = exc
     \/ /\ exc' = "SerialException"
        /\ pc' = "finally"
        /\ UNCHANGED << io, step, response, rx, done_tasks >>
  /\ cmd' = << >>
  /\ UNCHANGED << prog, earlier, wire, args, conn, ecu_i, pid_i, verdict, files, valid_results, stdout >>

\* OBDScanner.send_command lines 36-39: time.sleep(delay), read_response().
\* scan_pid_for_ecu drops every return value but the last, the PID query's,
\* which main binds to response (line 142).
ScanRead ==
  /\ prog = "scanner" /\ pc = "read"
  /\ \/ \E raw \in RawReplies :
          /\ io' = Append(io, ReadEvent(cmd, scanner_delay(cmd)))
          /\ IF step < 7
               THEN /\ step' = step + 1
                    /\ pc' = "write"
                    /\ UNCHANGED << response, rx, done_tasks >>
               ELSE /\ response' = read_response(raw)
                    /\ rx' = raw
                    /\ done_tasks' = Append(done_tasks,
                                            [ecu |-> ecus[ecu_i], pid |-> pids[pid_i],
                                             response |-> read_response(raw)])
                    /\ pc' = "record"
                    /\ step' = step
          /\ exc' = exc
     \/ /\ exc' = "SerialException"
        /\ pc' = "finally"
        /\ UNCHANGED << io, step, response, rx, done_tasks >>
  /\ cmd' = << >>
  /\ UNCHANGED << prog, earlier, wire, args, conn, ecu_i, pid_i, verdict, files, valid_results, stdout >>

\* An inner loop that runs over the ECUs and an outer loop over the PIDs.
next_task_pid_major(ei, pi) ==
  IF ei < Len(ecus) THEN << ei + 1, pi >>
  ELSE IF pi < Len(pids) THEN << 1, pi + 1 >>
  ELSE << 0, 0 >>

\* Lines 139-140: for ecu in args.ecus: for pid in args.pids: the positions of
\* the iteration after (ei, pi), << 0, 0 >> when both loops are exhausted.
next_task(ei, pi) ==
  IF pi < Len(pids) THEN << ei, pi + 1 >>
  ELSE IF ei < Len(ecus) THEN << ei + 1, 1 >>
  ELSE << 0, 0 >>

\* A log line that is written but left in the handle's buffer.
log_line_unflushed(f, line) == FileWrite(f, line)

\* Lines 145-146 and 151-152: file.write(line); file.flush()
log_line(f, line) == FileFlush(FileWrite(f, line))

\* Every result is kept, whatever is_valid_response said.
keep_all(valid, results, entry) == Append(results, entry)

\* Lines 148-150: valid_results.append(...) under if is_valid_response(response)
keep_if_valid(valid, results, entry) == IF valid THEN Append(results, entry) ELSE results

\* Lines 143-154, then the next iteration of the two for loops.
ScanRecord ==
  /\ prog = "scanner" /\ pc = "record"
  /\ LET ecu == ecus[ecu_i]
         pid == pids[pid_i]
         valid == is_valid_response(response)
     IN /\ debug_log_file' = log_line(debug_log_file, debug_message(ecu, pid, response))
        /\ verdict' = Append(verdict, valid)
        /\ valid_results' = keep_if_valid(valid, valid_results, << ecu, pid, response >>)
        /\ valid_log_file' =
             IF valid THEN log_line(valid_log_file, debug_message(ecu, pid, response))
                      ELSE valid_log_file
  /\ LET next == next_task(ecu_i, pid_i)
     IN IF next # << 0, 0 >>
          THEN /\ ecu_i' = next[1] /\ pid_i' = next[2] /\ step' = 1 /\ pc' = "write"
          ELSE /\ pc' = "finally" /\ UNCHANGED loop
  /\ UNCHANGED << prog, earlier, wire, exc, args, conn, cmd, io, response, stdout, rx, done_tasks >>

\* Lines 155-158: the finally block (OBDScanner.close: if self.ser:
\* self.ser.close()); an exception in flight then leaves main.
ScanFinally ==
  /\ prog = "scanner" /\ pc = "finally"
  /\ port' = IF ser = "Serial" THEN "closed" ELSE port
  /\ UNCHANGED << ser, typed >>
  /\ valid_log_file' = FileClose(valid_log_file)
  /\ debug_log_file' = FileClose(debug_log_file)
  /\ pc' = IF exc = "none" THEN "report" ELSE "raised"
  /\ UNCHANGED << prog, earlier, wire, exc, args, loop, cmd, io, response, verdict, valid_results,
                  stdout, rx, done_tasks >>

\* Lines 161-163: the heading, then one line for each entry of valid_results.
report(results) ==
  << ScanComplete >>
    \o [n \in 1..Len(results) |-> result_line(results[n][1], results[n][2], results[n][3])]

\* Lines 160-163.
ScanReport ==
  /\ prog = "scanner" /\ pc = "report"
  /\ stdout' = stdout \o report(valid_results)
  /\ pc' = "done"
  /\ UNCHANGED << prog, earlier, wire, exc, args, conn, loop, cmd, io, response, verdict, files,
                  valid_results, rx, done_tasks >>

ScanNext ==
  \/ ScanOpenLogs
  \/ ScanConnect
  \/ ScanWrite
  \/ ScanRead
  \/ ScanRecord
  \/ ScanFinally
  \/ ScanReport

(***************************************************************************)
(* scanner.py run again and again in the same directory                    *)
(***************************************************************************)

\* Most runs of the scanner, one after another.
MaxRuns == 2

\* The command lines the runs are tried with.
RunEcus == { << ECU_6F1 >>, << ECU_A06, ECU_6F1 >> }

RunPids == { << PID_224002 >>, << PID_0100, PID_224002 >> }

InitRuns ==
  /\ prog = "scanner"
  /\ ecus \in RunEcus
  /\ pids \in RunPids
  /\ extended \in BOOLEAN
  /\ InitCommon

\* How a run that is over ended: main returned, main raised out of the scan,
\* or main raised because the port could not be opened.
run_end ==
  IF pc = "done" THEN "completed" ELSE IF ser = "Serial" THEN "aborted" ELSE "no_port"

\* Lines 164-165: the process ends (files still open are closed by the
\* interpreter) and the same command line is run again: main starts with
\* nothing but the files the earlier run left in the directory.
ScanRestart ==
  /\ prog = "scanner" /\ pc \in {"done", "raised"}
  /\ Len(earlier) < MaxRuns - 1
  /\ earlier' = Append(earlier, [end |-> run_end, left |-> debug_log_file.data # << >>])
  /\ debug_log_file' = FileClose(debug_log_file)
  /\ valid_log_file' = FileClose(valid_log_file)
  /\ pc' = "main"
  /\ exc' = "none"
  /\ ser' = "None" /\ port' = "closed"
  /\ ecu_i' = 0 /\ pid_i' = 0 /\ step' = 0
  /\ cmd' = << >>
  /\ io' = << >>
  /\ response' = << >>
  /\ verdict' = << >>
  /\ valid_results' = << >>
  /\ stdout' = << >>
  /\ rx' = << >>
  /\ done_tasks' = << >>
  /\ UNCHANGED << prog, args, typed, wire >>

RunsNext ==
  \/ ScanNext
  \/ ScanRestart

SpecRuns == InitRuns /\ [][RunsNext]_vars

(***************************************************************************)
(* scanner.py against an adapter whose reply to a command may reach the    *)
(* port after the pause of the send_command that wrote the command.        *)
(***************************************************************************)

\* Most replies still on their way when the port is read.
MaxLate == 1

\* What an ELM327 answers to an AT command it accepts.
ReplyOK == << "O", "K", "\r", "\r", ">" >>

\* The command lines the scan is tried with.
LatePids == { << PID_224002 >>, << PID_0100, PID_224002 >> }

InitLate ==
  /\ prog = "scanner"
  /\ ecus = << ECU_6F1 >>
  /\ pids \in LatePids
  /\ extended \in BOOLEAN
  /\ InitCommon

\* The replies the adapter may give to command `step` of a task.
adapter_replies(k) ==
  IF k < 7 THEN {Encode(ReplyOK)} ELSE {Encode(ReplyData), Encode(ReplyNoData)}

\* The bytes of a sequence of chunks, in order.
RECURSIVE chunk_bytes(_)
chunk_bytes(chunks) ==
  IF chunks = << >> THEN << >> ELSE Head(chunks).data \o chunk_bytes(Tail(chunks))

\* OBDScanner.send_command line 35: the write; the adapter will answer it.
LateWrite ==
  /\ prog = "scanner" /\ pc = "write"
  /\ cmd' = current_cmd
  /\ io' = Append(io, WriteEvent(current_cmd, command_bytes(current_cmd)))
  /\ \E reply \in adapter_replies(step) :
       pending' = Append(pending,
                         [task |-> Len(done_tasks) + 1, step |-> step, data |-> reply])
  /\ pc' = "read"
  /\ UNCHANGED << prog, exc, earlier, args, conn, loop, response, verdict, files,
                  valid_results, stdout, rx, done_tasks, inbuf, drained >>

\* Line 36, time.sleep(delay): while the script sleeps the oldest reply on its
\* way reaches the port's receive buffer.
LateArrive ==
  /\ prog = "scanner" /\ pc = "read"
  /\ pending # << >>
  /\ inbuf' = Append(inbuf, Head(pending))
  /\ pending' = Tail(pending)
  /\ UNCHANGED << prog, pc, exc, earlier, args, conn, loop, cmd, io, response, verdict,
                  files, valid_results, stdout, rx, done_tasks, drained >>

\* Lines 37 and 41-46: read_all() takes whatever the receive buffer holds;
\* scan_pid_for_ecu keeps the seventh return value only.
LateRead ==
  /\ prog = "scanner" /\ pc = "read"
  /\ Len(pending) <= MaxLate
  /\ io' = Append(io, ReadEvent(cmd, scanner_delay(cmd)))
  /\ drained' = inbuf
  /\ inbuf' = << >>
  /\ IF step < 7
       THEN /\ step' = step + 1
            /\ pc' = "write"
            /\ UNCHANGED << response, rx, done_tasks >>
       ELSE /\ response' = read_response(chunk_bytes(inbuf))
            /\ rx' = chunk_bytes(inbuf)
            /\ done_tasks' = Append(done_tasks,
                                    [ecu |-> ecus[ecu_i], pid |-> pids[pid_i],
                                     response |-> read_response(chunk_bytes(inbuf))])
            /\ pc' = "record"
            /\ step' = step
  /\ cmd' = << >>
  /\ UNCHANGED << prog, exc, earlier, args, conn, ecu_i, pid_i, verdict, files,
                  valid_results, stdout, pending >>

LateNext ==
  \/ ScanOpenLogs
  \/ ScanConnect
  \/ LateWrite
  \/ LateArrive
  \/ LateRead
  \/ ScanRecord
  \/ ScanFinally
  \/ ScanReport

SpecLate == InitLate /\ [][LateNext]_vars

(***************************************************************************)
(* OBD-terminal.py                                                         *)
(***************************************************************************)

init_commands ==
  << << "A", "T", "W", "S" >>,
     << "A", "T", "E", "0" >>,
     << "A", "T", "M", "0" >>,
     << "A", "T", "S", "0" >>,
     << "A", "T", "A", "T", "1" >>,
     << "A", "T", "H", "1" >>,
     << "A", "T", "S", "P", "6" >>,
     << "A", "T", "S", "0" >>,
     << "A", "T", "D", "P", "N" >> >>

\* send_command line 28, in milliseconds.
TerminalLongDelay == 700

TerminalShortDelay == 300

\* delay = 0.7 if cmd.strip().startswith("22") else 0.3
terminal_delay(c) ==
  IF StartsWith(Strip(c), << "2", "2" >>) THEN TerminalLongDelay ELSE TerminalShortDelay

InitTerminal ==
  /\ prog = "terminal"
  /\ ecus = << >>
  /\ pids = << >>
  /\ extended = FALSE
  /\ InitCommon
  /\ debug_log_file = NoFile
  /\ valid_log_file = NoFile

\* initialize_obd line 11: serial.Serial(...) opens the port, or raises
\* SerialException, which line 20 catches: initialize_obd returns None and
\* main (lines 70-71) logs the failure and ends.
TermConnect ==
  /\ prog = "terminal" /\ pc = "main"
  /\ \/ /\ ser' = "Serial" /\ port' = "open"
        /\ step' = 1
        /\ pc' = "init_write"
     \/ /\ pc' = "done"
        /\ UNCHANGED << ser, port, step >>
  /\ UNCHANGED << prog, earlier, wire, exc, args, typed, ecu_i, pid_i, cmd, io, response, verdict,
                  files, valid_results, stdout, rx, done_tasks >>

\* An initialization that logs the failure of a command and goes on with the
\* next one.
TermInitWrite_continues ==
  /\ prog = "terminal" /\ pc = "init_write"
  /\ cmd' = init_commands[step]
  /\ \/ /\ io' = Append(io, WriteEvent(init_commands[step],
                                       command_bytes(init_commands[step])))
        /\ pc' = "init_read"
        /\ step' = step
     \/ /\ io' = io
        /\ IF step < Len(init_commands)
             THEN step' = step + 1 /\ pc' = "init_write"
             ELSE step' = 0 /\ pc' = "input"
  /\ UNCHANGED << prog, earlier, wire, exc, args, conn, ecu_i, pid_i, response, verdict, files,
                  valid_results, stdout, rx, done_tasks >>

\* initialize_obd line 16, send_command lines 27-31.  A SerialException from
\* ser.write is caught by line 20: initialize_obd returns None, main's ser is
\* None and main ends without closing the port.
TermInitWrite ==
  /\ prog = "terminal" /\ pc = "init_write"
  /\ cmd' = init_commands[step]
  /\ \/ /\ io' = Append(io, WriteEvent(init_commands[step],
                                       command_bytes(init_commands[step])))
        /\ pc' = "init_read"
        /\ UNCHANGED ser
     \/ /\ ser' = "None"
        /\ pc' = "done"
        /\ io' = io
  /\ UNCHANGED << prog, earlier, wire, exc, args, port, typed, loop, response, verdict, files,
                  valid_results, stdout, rx, done_tasks >>

\* send_command lines 32-35 during initialization; the response is dropped.
TermInitRead ==
  /\ prog = "terminal" /\ pc = "init_read"
  /\ \/ \E raw \in TerminalReplies :
          /\ io' = Append(io, ReadEvent(cmd, terminal_delay(cmd)))
          /\ IF step < Len(init_commands)
               THEN step' = step + 1 /\ pc' = "init_write"
               ELSE step' = 0 /\ pc' = "input"
          /\ UNCHANGED ser
     \/ /\ ser' = "None"
        /\ pc' = "done"
        /\ UNCHANGED << io, step >>
  /\ cmd' = << >>
  /\ UNCHANGED << prog, earlier, wire, exc, args, port, typed, ecu_i, pid_i, response, verdict, files,
                  valid_results, stdout, rx, done_tasks >>

\* interactive_terminal lines 49-51: cmd = input("OBD> ").strip(); 'exit' in
\* any case leaves the loop; input() raises EOFError at end of input.
TermInput ==
  /\ prog = "terminal" /\ pc = "input"
  /\ \/ \E line \in InputLines :
          /\ cmd' = Strip(line)
          /\ IF Lower(Strip(line)) = exit
               THEN pc' = "finally" /\ typed' = typed
               ELSE typed < MaxInputs /\ typed' = typed + 1 /\ pc' = "write"
          /\ exc' = exc
     \/ /\ exc' = "EOFError"
        /\ pc' = "finally"
        /\ UNCHANGED << cmd, typed >>
  /\ UNCHANGED << prog, earlier, wire, args, ser, port, loop, io, response, verdict, files,
                  valid_results, stdout, rx, done_tasks >>

\* send_command lines 25-31 from the prompt (ser is a Serial object here).
TermWrite ==
  /\ prog = "terminal" /\ pc = "write"
  /\ \/ /\ io' = Append(io, WriteEvent(cmd, command_bytes(cmd)))
        /\ pc' = "read"
        /\ exc' = exc
     \/ /\ exc' = "SerialException"
        /\ pc' = "finally"
        /\ io' = io
  /\ UNCHANGED << prog, earlier, wire, args, conn, loop, cmd, response, verdict, files,
                  valid_results, stdout, rx, done_tasks >>

\* send_command lines 32-35, then print(response) (line 53).
TermRead ==
  /\ prog = "terminal" /\ pc = "read"
  /\ \/ \E raw \in TerminalReplies :
          /\ io' = Append(io, ReadEvent(cmd, terminal_delay(cmd)))
          /\ response' = read_response(raw)
          /\ rx' = raw
          /\ stdout' = Append(stdout, read_response(raw))
          /\ pc' = "input"
          /\ exc' = exc
     \/ /\ exc' = "SerialException"
        /\ pc' = "finally"
        /\ UNCHANGED << io, response, rx, stdout >>
  /\ cmd' = << >>
  /\ UNCHANGED << prog, earlier, wire, args, conn, loop, verdict, files, valid_results, done_tasks >>

\* main lines 67-69: ser.close().
TermFinally ==
  /\ prog = "terminal" /\ pc = "finally"
  /\ port' = "closed"
  /\ pc' = IF exc = "none" THEN "done" ELSE "raised"
  /\ UNCHANGED << prog, earlier, wire, exc, args, ser, typed, loop, cmd, io, response, verdict, files,
                  valid_results, stdout, rx, done_tasks >>

TermNext ==
  \/ TermConnect
  \/ TermInitWrite
  \/ TermInitRead
  \/ TermInput
  \/ TermWrite
  \/ TermRead
  \/ TermFinally

(***************************************************************************)
(* The functions on their own: one call of send_command on an open port,   *)
(* one call of is_valid_response, on inputs drawn from bounded sets.       *)
(***************************************************************************)

\* Longest command and longest response the calls are tried on.
MaxCmdLen == 3

MaxRespLen == 3

\* All sequences over S of length 0..n.
Strings(S, n) == UNION {[1..m -> S] : m \in 0..n}

SendInputs ==
  Strings({" ", "\r", "A", "2"}, MaxCmdLen)
    \cup { << " ", "2", "2", "4", "0", "0", "2", "\r", "\n" >>,
           << "\t", "A", "T", " ", "Z", " ", " " >>,
           << "2", " ", "2", "4", "0" >> }

ClassifyInputs ==
  Strings({"?", "N", "o", " ", "x"}, MaxRespLen)
    \cup { << "N", "O", " ", "D", "A", "T", "A" >>,
           << "n", "o", " ", "d", "a", "t", "a" >>,
           << "N", "o", " ", "D", "a", "T", "a", "\r", "\r", ">" >>,
           << "x", "N", "O", " ", "D", "A", "T", "A", "x" >>,
           << "N", "O", " ", " ", "D", "A", "T", "A" >>,
           << "N", "O", "D", "A", "T", "A" >>,
           << "N", "O", " ", "D", "A", "T" >>,
           << "U", "N", "A", "B", "L", "E", " ", "T", "O", " ",
              "C", "O", "N", "N", "E", "C", "T" >>,
           << "u", "n", "a", "b", "l", "e", " ", "t", "o", " ",
              "c", "o", "n", "n", "e", "c", "t" >>,
           << ">", "U", "n", "a", "b", "l", "e", " ", "T", "o", " ",
              "C", "o", "n", "n", "e", "c", "t", "\r" >>,
           << "U", "N", "A", "B", "L", "E", " ", "T", "O", " ",
              "C", "O", "N", "N", "E", "C" >>,
           << "4", "1", " ", "0", "0", " ", "B", "E", " ", "1", "F", " ",
              "A", "8", " ", "1", "3" >>,
           << "4", "1", " ", "0", "0", "?" >>,
           << "O", "K" >>,
           << "z", "z", "#", "!", "!" >>,
           << REPL >>,
           << "\t", "\r", "\n", " " >> }

\* Replies made of nothing but blanks, as bytes: space, tab, LF, CR.
BlankReplies == Strings({32, 9, 10, 13}, MaxRespLen)

UnitReplies == TerminalReplies \cup BlankReplies

InitUnit ==
  /\ InitHistory
  /\ exc = "none"
  /\ ecus = << >> /\ pids = << >> /\ extended = FALSE
  /\ ecu_i = 0 /\ pid_i = 0 /\ step = 0
  /\ typed = 0
  /\ io = << >>
  /\ verdict = << >>
  /\ valid_results = << >>
  /\ stdout = << >>
  /\ rx = << >>
  /\ done_tasks = << >>
  /\ debug_log_file = NoFile
  /\ valid_log_file = NoFile
  /\ ser = "Serial"
  /\ port = "open"
  /\ \/ /\ prog \in {"scanner", "terminal"}
        /\ pc = "call_send"
        /\ cmd \in SendInputs
        /\ response = << >>
     \/ /\ prog = "scanner"
        /\ pc = "call_classify"
        /\ cmd = << >>
        /\ response \in ClassifyInputs

\* The pause of the script's send_command when the caller passes no delay.
delay_of(p, c) == IF p = "scanner" THEN scanner_delay(c) ELSE terminal_delay(c)

\* send_command up to the write: scanner.py lines 33-35, OBD-terminal.py 25-31.
UnitSendWrite ==
  /\ pc = "call_send"
  /\ io' = Append(io, WriteEvent(cmd, command_bytes(cmd)))
  /\ pc' = "call_read"
  /\ UNCHANGED << prog, earlier, wire, exc, args, conn, loop, cmd, response, verdict, files,
                  valid_results, stdout, rx, done_tasks >>

\* send_command from the pause to the return: scanner.py lines 36-39 and
\* 41-46, OBD-terminal.py lines 32-35 and 38-41.
UnitSendRead ==
  /\ pc = "call_read"
  /\ \E raw \in UnitReplies :
       /\ io' = Append(io, ReadEvent(cmd, delay_of(prog, cmd)))
       /\ response' = read_response(raw)
       /\ rx' = raw
  /\ pc' = "returned"
  /\ UNCHANGED << prog, earlier, wire, exc, args, conn, loop, cmd, verdict, files, valid_results,
                  stdout, done_tasks >>

\* is_valid_response(response): on a response given directly, or as main
\* (scanner.py line 148) does on what send_command returned.
UnitClassify ==
  /\ prog = "scanner"
  /\ pc \in {"call_classify", "returned"}
  /\ verdict' = Append(verdict, is_valid_response(response))
  /\ pc' = IF pc = "returned" THEN "classified_reply" ELSE "classified"
  /\ UNCHANGED << prog, earlier, wire, exc, args, conn, loop, cmd, io, response, files, valid_results,
                  stdout, rx, done_tasks >>

UnitNext ==
  \/ UnitSendWrite
  \/ UnitSendRead
  \/ UnitClassify

SpecUnit == InitUnit /\ [][UnitNext]_vars

(***************************************************************************)
(* send_command on a port that is not open: the terminal's send_command    *)
(* given None, and either send_command given a Serial object that was      *)
(* closed.  OBDScanner has no serial object only when __init__ raised, and *)
(* then there is no OBDScanner to call.                                    *)
(***************************************************************************)

\* OBD-terminal.py line 36.
NotAvailable ==
  << "S", "e", "r", "i", "a", "l", " ", "c", "o", "n", "n", "e", "c", "t", "i", "o", "n",
     " ", "n", "o", "t", " ", "a", "v", "a", "i", "l", "a", "b", "l", "e", "." >>

InitNotOpen ==
  /\ InitHistory
  /\ exc = "none"
  /\ ecus = << >> /\ pids = << >> /\ extended = FALSE
  /\ ecu_i = 0 /\ pid_i = 0 /\ step = 0
  /\ typed = 0
  /\ io = << >>
  /\ verdict = << >>
  /\ valid_results = << >>
  /\ stdout = << >>
  /\ rx = << >>
  /\ done_tasks = << >>
  /\ debug_log_file = NoFile
  /\ valid_log_file = NoFile
  /\ response = << >>
  /\ port = "closed"
  /\ pc = "call_send"
  /\ cmd \in SendInputs
  /\ \/ prog = "terminal" /\ ser \in {"None", "Serial"}
     \/ prog = "scanner" /\ ser = "Serial"

\* send_command when the port is not open.  OBD-terminal.py lines 25 and 36:
\* `if ser:` is false for None and the function returns its fixed string.
\* With a closed Serial object (scanner.py line 35, OBD-terminal.py line 31)
\* ser.write raises PortNotOpenError, a SerialException.
NotOpenSend ==
  /\ pc = "call_send"
  /\ port = "closed"
  /\ IF prog = "terminal" /\ ser = "None"
       THEN /\ response' = NotAvailable
            /\ pc' = "returned"
            /\ exc' = exc
       ELSE /\ exc' = "SerialException"
            /\ pc' = "raised"
            /\ response' = response
  /\ UNCHANGED << prog, earlier, wire, args, conn, loop, cmd, io, verdict, files, valid_results,
                  stdout, rx, done_tasks >>

\* interactive_terminal line 53: print(response).
NotOpenPrint ==
  /\ prog = "terminal" /\ pc = "returned"
  /\ stdout' = Append(stdout, response)
  /\ pc' = "printed"
  /\ UNCHANGED << prog, earlier, wire, exc, args, conn, loop, cmd, io, response, verdict, files,
                  valid_results, rx, done_tasks >>

NotOpenNext ==
  \/ NotOpenSend
  \/ NotOpenPrint

SpecNotOpen == InitNotOpen /\ [][NotOpenNext]_vars

Init == InitScanner \/ InitTerminal

Next == ScanNext \/ TermNext

Spec == Init /\ [][Next]_vars

(***************************************************************************)
(* Properties                                                              *)
(***************************************************************************)

\* The writes to the serial port so far, in order.
Writes == SelectSeq(io, LAMBDA e : e.op = "write")

\* The bytes of an ASCII command followed by one carriage return.
LineBytes(c) == [n \in 1..(Len(c) + 1) |-> IF n <= Len(c) THEN Ord[c[n]] ELSE 13]

C1_Seven(ecu, pid, ext) ==
  << << "A", "T", "S", "T", "9", "6" >>,
     (IF ext THEN << "A", "T", "F", "C", "S", "H" >> ELSE << "A", "T", "S", "H" >>) \o ecu,
     << "A", "T", "C", "E", "A", "0", "1" >>,
     << "A", "T", "C", "R", "A", "6", "0", "1" >>,
     << "A", "T", "F", "C", "S", "D", "0" >> \o pid,
     << "A", "T", "F", "C", "S", "M", "1" >>,
     pid >>

C2_RowMajorSequential ==
  prog = "scanner" =>
    /\ \A t \in 1..Len(done_tasks) :
         /\ done_tasks[t].ecu = ecus[((t - 1) \div Len(pids)) + 1]
         /\ done_tasks[t].pid = pids[((t - 1) % Len(pids)) + 1]
    /\ Len(done_tasks) <= Len(ecus) * Len(pids)
    /\ Len(done_tasks) <= Len(verdict) + 1
    /\ Len(Writes) <= 7 * (Len(verdict) + 1)
    /\ pc \in {"report", "done"} =>
         /\ Len(done_tasks) = Len(ecus) * Len(pids)
         /\ Len(verdict) = Len(ecus) * Len(pids)
    /\ pc = "raised" => exc # "none"
    /\ pc \notin {"done", "raised"} => ENABLED ScanNext

\* A finished scan of two different ECUs with two different PIDs.
C2_Witness ==
  /\ prog = "scanner" /\ pc = "done"
  /\ Len(ecus) = 2 /\ Len(pids) = 2
  /\ ecus[1] # ecus[2] /\ pids[1] # pids[2]
  /\ Len(done_tasks) = 4

\* C3: every send pauses the long delay (0.7 s) before reading when the trimmed
\* command starts with "22", and a short delay (0.2 s or 0.3 s) otherwise.
C3_DelayByPrefix ==
  \A n \in 1..Len(io) :
    io[n].op = "read" =>
      IF StartsWith(Strip(io[n].cmd), << "2", "2" >>)
        THEN io[n].delay = 700
        ELSE io[n].delay \in {200, 300}

\* t is c without its leading and trailing whitespace.
C4_IsTrim(t, c) ==
  \E a \in 0..Len(c) : \E b \in a..Len(c) :
    /\ t = SubSeq(c, a + 1, b)
    /\ \A n \in 1..a : c[n] \in Whitespace
    /\ \A n \in (b + 1)..Len(c) : c[n] \in Whitespace
    /\ t # << >> => (t[1] \notin Whitespace /\ t[Len(t)] \notin Whitespace)

\* C4: one send(c) on an open transport writes, in one write, exactly the bytes
\* of c without its leading and trailing whitespace followed by one carriage
\* return.
C4_WritesTrimmedPlusCR ==
  /\ Len(Writes) <= 1
  /\ pc \in {"call_read", "returned", "classified_reply"} => Len(Writes) = 1
  /\ \A n \in 1..Len(io) :
       io[n].op = "write" =>
         \E a \in 0..Len(io[n].cmd) : \E b \in a..Len(io[n].cmd) :
           /\ C4_IsTrim(SubSeq(io[n].cmd, a + 1, b), io[n].cmd)
           /\ io[n].data = LineBytes(SubSeq(io[n].cmd, a + 1, b))

\* The terminal's send_command has returned from a command given with a leading
\* blank and a trailing CR LF.
C4_Witness ==
  /\ prog = "terminal" /\ pc = "returned"
  /\ cmd = << " ", "2", "2", "4", "0", "0", "2", "\r", "\n" >>
  /\ Len(Writes) = 1
  /\ Writes[1].data = << 50, 50, 52, 48, 48, 50, 13 >>

C5_Markers ==
  { << "?" >>,
    << "N", "O", " ", "D", "A", "T", "A" >>,
    << "U", "N", "A", "B", "L", "E", " ", "T", "O", " ",
       "C", "O", "N", "N", "E", "C", "T" >> }

\* The marker m stands in resp after the first `at` characters, in any letter case.
C5_MarkerAt(resp, m, at) ==
  \A k \in 1..Len(m) :
    \/ resp[at + k] = m[k]
    \/ Ord[m[k]] >= 65 /\ Ord[m[k]] <= 90 /\ Ord[resp[at + k]] = Ord[m[k]] + 32

C5_HasMarker(resp) ==
  \E m \in C5_Markers : \E at \in 0..(Len(resp) - Len(m)) : C5_MarkerAt(resp, m, at)

\* C5: is_valid_response is Invalid for the empty string and for every response
\* holding "?", "NO DATA" or "UNABLE TO CONNECT" in any letter case, and Valid
\* for every other non-empty string.
C5_ClassifyByMarkers ==
  pc \in {"classified", "classified_reply"} =>
    verdict[Len(verdict)] = (response # << >> /\ ~C5_HasMarker(response))

\* A mixed-case "No DaTa" reply has been classified Invalid.
C5_Witness ==
  /\ pc = "classified"
  /\ response = << "N", "o", " ", "D", "a", "T", "a", "\r", "\r", ">" >>
  /\ verdict = << FALSE >>

C7_Init ==
  << << "A", "T", "W", "S" >>, << "A", "T", "E", "0" >>, << "A", "T", "M", "0" >>,
     << "A", "T", "S", "0" >>, << "A", "T", "A", "T", "1" >>, << "A", "T", "H", "1" >>,
     << "A", "T", "S", "P", "6" >>, << "A", "T", "S", "0" >>,
     << "A", "T", "D", "P", "N" >> >>

\* C7: on every connection that was opened the first nine commands written are
\* ATWS, ATE0, ATM0, ATS0, ATAT1, ATH1, ATSP6, ATS0, ATDPN in this order, and
\* the sequence is not sent a second time.
C7_InitSequenceOnce ==
  LET W == Writes
  IN /\ \A n \in 1..Len(W) : n <= 9 => W[n].cmd = C7_Init[n]
     /\ \A n \in 1..(Len(W) - 9) :
          \E q \in 1..9 : n + q > Len(W) \/ W[n + q].cmd # C7_Init[q]

\* C8: in a scan the complete initialization sequence has been sent on the
\* connection before the first ATST96 and before any PID query.
C8_InitializedBeforeConfigured ==
  prog = "scanner" =>
    LET W == Writes
    IN \A n \in 1..Len(W) :
         W[n].cmd \notin {C7_Init[q] : q \in 1..9} =>
           /\ n > 9
           /\ \A q \in 1..9 : W[q].cmd = C7_Init[q]

\* The log lines of the first k tasks that returned.
RECURSIVE C9_Lines(_)
C9_Lines(k) ==
  IF k = 0 THEN << >>
  ELSE C9_Lines(k - 1)
         \o debug_message(done_tasks[k].ecu, done_tasks[k].pid, done_tasks[k].response)

\* C9: at every point of a scan debug_responses.log holds on disk, flushed,
\* exactly one entry for each recorded task, in task order; task k's entry is
\* there before the first command of task k+1 is written; and the entries stay
\* when the scan aborts.
C9_DebugLogStreamed ==
  (prog = "scanner" /\ pc # "main") =>
    /\ debug_log_file.exists
    /\ debug_log_file.buf = << >>
    /\ Len(verdict) <= Len(done_tasks)
    /\ debug_log_file.data = C9_Lines(Len(verdict))
    /\ Len(Writes) <= 7 * (Len(verdict) + 1)

\* The scan aborted while task 2 was under way; the log holds task 1's entry.
C9_Witness ==
  /\ prog = "scanner" /\ pc = "raised"
  /\ Len(verdict) = 1
  /\ Len(Writes) > 7
  /\ debug_log_file.data = C9_Lines(1)
  /\ Len(debug_log_file.data) > 0

\* The recorded tasks whose response is_valid_response accepts.
C10_ValidTasks ==
  SelectSeq(SubSeq(done_tasks, 1, Len(verdict)), LAMBDA d : is_valid_response(d.response))

RECURSIVE C10_Lines(_)
C10_Lines(tasks) ==
  IF tasks = << >> THEN << >>
  ELSE debug_message(Head(tasks).ecu, Head(tasks).pid, Head(tasks).response)
         \o C10_Lines(Tail(tasks))

\* C10: valid_responses.log and valid_results hold exactly the recorded tasks
\* classified Valid, in scan order, each once; the table printed when the scan
\* completes is that list.
C10_ValidOnly ==
  (prog = "scanner" /\ pc # "main") =>
    LET V == C10_ValidTasks
    IN /\ valid_results = [n \in 1..Len(V) |-> << V[n].ecu, V[n].pid, V[n].response >>]
       /\ valid_log_file.data = C10_Lines(V)
       /\ valid_log_file.buf = << >>
       /\ stdout =
            IF pc = "done"
              THEN << ScanComplete >>
                     \o [n \in 1..Len(V) |->
                           result_line(V[n].ecu, V[n].pid, V[n].response)]
              ELSE << >>

\* A finished scan of three tasks or more, some Valid and some not.
C10_Witness ==
  /\ prog = "scanner" /\ pc = "done"
  /\ Len(done_tasks) >= 3
  /\ Len(valid_results) >= 1
  /\ Len(valid_results) < Len(done_tasks)
  /\ Len(stdout) = Len(valid_results) + 1

\* The positions, in task order, of the recorded tasks main found valid.
C11_ValidIndex == SelectSeq([t \in 1..Len(verdict) |-> t], LAMBDA t : verdict[t])

\* The number of line ends in a text.
C11_LineCount(text) == Cardinality({n \in 1..Len(text) : text[n] = "\n"})

\* C11 as the specification words it: after k recorded tasks main's in-memory
\* result list has k entries, one for each task whether Valid or Invalid, and
\* |ecuList| x |pidList| entries when the run is complete.
C11_AllResultsInMemory ==
  prog = "scanner" =>
    /\ Len(valid_results) = Len(verdict)
    /\ pc \in {"report", "done"} => Len(valid_results) = Len(ecus) * Len(pids)

\* C11: after k recorded tasks main's in-memory list valid_results holds one
\* (ecu, pid, response) entry for each of the k tasks found Valid and none for a
\* task found Invalid, in task order; every one of the k tasks, Invalid ones
\* too, has its line in debug_responses.log; a completed run has recorded
\* |ecuList| x |pidList| tasks.
C11_ValidResultsInMemory ==
  (prog = "scanner" /\ pc # "main") =>
    LET at == C11_ValidIndex
    IN /\ Len(valid_results) = Len(at)
       /\ \A n \in 1..Len(at) :
            valid_results[n] =
              << done_tasks[at[n]].ecu, done_tasks[at[n]].pid, done_tasks[at[n]].response >>
       /\ C11_LineCount(debug_log_file.data) = Len(verdict)
       /\ pc \in {"report", "done"} => Len(verdict) = Len(ecus) * Len(pids)

\* A completed run of four tasks, the second and the fourth found Valid.
C11_Witness ==
  /\ prog = "scanner" /\ pc = "done"
  /\ verdict = << FALSE, TRUE, FALSE, TRUE >>
  /\ Len(valid_results) = 2
  /\ valid_results[1][2] = pids[2]

\* The script is past its connect and the port was not opened.
C12_OpenFailed == pc \notin {"main", "connect"} /\ ser = "None" /\ port = "closed"

\* C12: when opening the port fails the failure reaches the caller (the scanner's
\* main ends with the SerialException, the terminal's initialize_obd returns
\* None and main ends) and the run is over: no command was written, no task ran,
\* no result was recorded, and the script takes no further step, so the port is
\* never opened later.
C12_OpenFailureAborts ==
  C12_OpenFailed =>
    /\ io = << >>
    /\ done_tasks = << >> /\ verdict = << >> /\ valid_results = << >>
    /\ debug_log_file.data = << >> /\ valid_log_file.data = << >>
    /\ stdout = << >>
    /\ IF prog = "scanner" THEN pc = "raised" /\ exc = "SerialException"
                           ELSE pc = "done"
    /\ ~ENABLED Next

\* The scanner's main has ended with the SerialException of a failed open,
\* after it had replaced a log of an earlier run.
C12_Witness ==
  /\ prog = "scanner" /\ pc = "raised" /\ exc = "SerialException"
  /\ ser = "None" /\ port = "closed"
  /\ Len(ecus) = 2 /\ Len(pids) = 2
  /\ debug_log_file.open /\ debug_log_file.data = << >>

C15_TaskFailed == prog = "scanner" /\ ser = "Serial" /\ exc = "SerialException"

C15_State ==
  /\ C15_TaskFailed =>
       /\ pc \in {"finally", "raised"}
       /\ Len(done_tasks) = Len(verdict)
       /\ Len(verdict) < Len(ecus) * Len(pids)
       /\ Len(Writes) >= 7 * Len(verdict)
       /\ Len(Writes) <= 7 * (Len(verdict) + 1)
       /\ C11_LineCount(debug_log_file.data) = Len(verdict)
       /\ stdout = << >>
  /\ (prog = "scanner" /\ pc = "record") =>
       /\ exc = "none"
       /\ rx = << >> => response = << >>
  /\ prog = "scanner" =>
       \A t \in 1..Len(verdict) : done_tasks[t].response = << >> => verdict[t] = FALSE

C15_Step ==
  C15_TaskFailed =>
    /\ exc' = exc
    /\ pc' = "raised"
    /\ io' = io
    /\ UNCHANGED << loop, done_tasks, verdict, valid_results, stdout >>
    /\ debug_log_file'.data = debug_log_file.data
    /\ valid_log_file'.data = valid_log_file.data

\* C15: a SerialException raised by the write or the read of any command of a
\* scan task leaves send_command, scan_pid_for_ecu and, past the finally block,
\* main as it was raised: after it no command is written, no task is started, the
\* failing task gets no entry in the lists or the logs, nothing is retried and no
\* report is printed.  An empty reply is no error: it is returned as the empty
\* string and classified (Invalid).
C15_TransportErrorFatal == []C15_State /\ [][C15_Step]_vars

\* The scan ended with a SerialException raised after the second command of the
\* second task was written; the first task's empty reply was recorded as Invalid.
C15_Witness ==
  /\ prog = "scanner" /\ pc = "raised" /\ exc = "SerialException"
  /\ ser = "Serial"
  /\ verdict = << FALSE >>
  /\ done_tasks[1].response = << >>
  /\ Len(Writes) = 9
  /\ Len(ecus) * Len(pids) >= 3

\* C16: no write to the port is a bare carriage return: every command written
\* has at least one character left after trimming.
C16_NoBareCR ==
  \A n \in 1..Len(io) :
    io[n].op = "write" => (Strip(io[n].cmd) # << >> /\ io[n].data # << 13 >>)

\* C17: every send_command makes one write and then, after its pause, one read
\* that drains the port; over the whole run writes and reads alternate, starting
\* with a write, each read belonging to the command just written, and a command
\* is written only when every earlier one has had its read.
C17_WriteReadAlternate ==
  /\ \A n \in 1..Len(io) :
       IF n % 2 = 1
         THEN io[n].op = "write"
         ELSE /\ io[n].op = "read"
              /\ io[n].cmd = io[n - 1].cmd
              /\ io[n].delay > 0
  /\ pc \in {"write", "init_write", "input", "record", "report"} => Len(io) % 2 = 0
  /\ pc \in {"read", "init_read"} => Len(io) % 2 = 1
  /\ Len(io) % 2 = 1 => (pc \in {"read", "init_read"} \/ exc # "none" \/ ser = "None")

\* The terminal has sent its nine initialization commands and two commands
\* typed at the prompt: eleven writes, each followed by its read.
C17_Witness ==
  /\ prog = "terminal" /\ pc = "input"
  /\ Len(io) = 22
  /\ Len(Writes) = 11
  /\ io[21].op = "write" /\ io[22].op = "read" /\ io[22].delay = 700

\* C18: in every run of the scanner, the first or a later one, once main has
\* opened the logs debug_responses.log holds the lines of the tasks this run has
\* recorded and nothing else, and valid_responses.log the lines of this run's
\* Valid tasks and nothing else, whatever the earlier runs left, also an earlier
\* run that was aborted in the middle of its scan.
C18_LogsOfThisRunOnly ==
  (prog = "scanner" /\ pc # "main") =>
    /\ debug_log_file.exists /\ valid_log_file.exists
    /\ debug_log_file.data = C9_Lines(Len(verdict))
    /\ valid_log_file.data = C10_Lines(C10_ValidTasks)
    /\ pc = "connect" => (debug_log_file.data = << >> /\ valid_log_file.data = << >>)

\* A second run, after a run that was aborted in mid-scan and left entries in
\* the debug log, has recorded one Invalid task: its debug log holds that one
\* line and its valid log is empty.
C18_Witness ==
  /\ prog = "scanner"
  /\ Len(earlier) = 1 /\ earlier[1].end = "aborted" /\ earlier[1].left
  /\ verdict = << FALSE >>
  /\ C11_LineCount(debug_log_file.data) = 1
  /\ valid_log_file.data = << >>

\* C19: the response a task is recorded with is made of bytes the adapter sent
\* in reply to that task's PID query and of no others, and a task is found Valid
\* only when the adapter's reply to its PID query is itself a Valid response.
C19_OwnReplyOnly ==
  (prog = "scanner" /\ pc = "record") =>
    /\ \A n \in 1..Len(drained) :
         drained[n].task = Len(done_tasks) /\ drained[n].step = 7
    /\ is_valid_response(response) =>
         \E n \in 1..Len(drained) :
           /\ drained[n].task = Len(done_tasks) /\ drained[n].step = 7
           /\ is_valid_response(read_response(drained[n].data))

\* C20: a port that was opened is closed by the time the script ends, however
\* it ends, and once it is closed the script is past every send_command: nothing
\* is written to the port after the close.
C20_OpenedPortClosed ==
  /\ pc \in {"done", "raised"} => port = "closed"
  /\ (ser = "Serial" /\ port = "closed") => pc \in {"report", "done", "raised"}

====
